---- MODULE Spec2Model ----
(***************************************************************************)
(* A model of the accelerator plugins of backend.ai-accelerator-cuda:      *)
(*   src/src/ai/backend/accelerator/cuda/plugin.py  (CUDAPlugin, init)     *)
(*   src/src/ai/backend/accelerator/tpu/tpu.py      (TPUAcceleratorInfo)   *)
(*                                                                         *)
(* Text is modelled as a sequence of characters (one-character strings).   *)
(* A fixed piece of text that the code only ever compares or copies as a   *)
(* whole ("/dev/nvidia", "NVIDIA Docker: ", a mount point) is one element. *)
(***************************************************************************)
EXTENDS Integers, Sequences, FiniteSets, TLC

VARIABLES
    pc,                 \* "loaded": init() has not run yet; "ready": it has
    enabled,            \* CUDAPlugin.enabled
    nvdocker_version,   \* CUDAPlugin.nvdocker_version
    device_mask,        \* CUDAPlugin.device_mask (a list of device ids)
    libcudart,          \* environment: "ok", "ImportError" or "RuntimeError"
    hw_count,           \* environment: number of devices the drivers report
    host_volumes,       \* environment: names of the docker volumes on the host
    alloc_map,          \* the agent's allocation map for this plugin
    ret                 \* the call the agent is awaiting: operation, arguments
                        \* and outcome; [op |-> "none"] between calls

vars == <<pc, enabled, nvdocker_version, device_mask, libcudart, hw_count,
          host_volumes, alloc_map, ret>>

\* ------------------------------------------------------------------ bounds

\* Largest number of devices the drivers report.
MaxDevices == 3
\* Largest number of lines the helper binary prints.
MaxLines == 2
\* Largest amount allocated on one device in one slot.
MaxAmount == 1
\* Largest number of entries of the endpoint's Devices list.
MaxDevFiles == 3
\* Largest number of entries of the endpoint's Volumes list.
MaxVolumeParams == 2
\* Largest share converted, in quanta of 0.01.
MaxShare == 250
\* Largest number of processing units of a TPU device.
MaxProcessingUnits == 3

\* -------------------------------------------------------------------- text

DigitChars == <<"0", "1", "2", "3", "4", "5", "6", "7", "8", "9">>

IsDigit(c) == \E i \in 1..10 : DigitChars[i] = c

DigitVal(c) == (CHOOSE i \in 1..10 : DigitChars[i] = c) - 1

\* str(idx) for idx >= 0
RECURSIVE Str(_)
Str(n) == IF n < 10 THEN <<DigitChars[n + 1]>>
          ELSE Str(n \div 10) \o <<DigitChars[(n % 10) + 1]>>

\* int(s) for a string of decimal digits
RECURSIVE IntOf(_)
IntOf(s) == IF Len(s) = 0 THEN 0
          ELSE 10 * IntOf(SubSeq(s, 1, Len(s) - 1)) + DigitVal(s[Len(s)])

\* the longest prefix of s made of digits (what \d+ matches at the start)
RECURSIVE TakeDigits(_)
TakeDigits(s) == IF Len(s) > 0 /\ IsDigit(Head(s))
                 THEN <<Head(s)>> \o TakeDigits(Tail(s))
                 ELSE <<>>

\* s.split(sep): the pieces of s between the occurrences of sep
RECURSIVE Split(_, _)
Split(s, sep) ==
    IF \A i \in 1..Len(s) : s[i] # sep THEN <<s>>
    ELSE LET k == CHOOSE i \in 1..Len(s) :
                      s[i] = sep /\ \A j \in 1..(i - 1) : s[j] # sep
         IN  <<SubSeq(s, 1, k - 1)>> \o Split(SubSeq(s, k + 1, Len(s)), sep)

\* s.startswith(p)
StartsWith(s, p) == Len(s) >= Len(p) /\ SubSeq(s, 1, Len(p)) = p

\* sep.join(parts)
RECURSIVE Join(_, _)
Join(parts, sep) ==
    IF Len(parts) = 0 THEN <<>>
    ELSE IF Len(parts) = 1 THEN parts[1]
    ELSE parts[1] \o <<sep>> \o Join(Tail(parts), sep)

\* a < b for Python strings of digits and commas: character by character,
\* a proper prefix first
RECURSIVE StrLess(_, _)
StrLess(a, b) ==
    IF Len(b) = 0 THEN FALSE
    ELSE IF Len(a) = 0 THEN TRUE
    ELSE IF Head(a) = Head(b) THEN StrLess(Tail(a), Tail(b))
    ELSE DigitVal(Head(a)) < DigitVal(Head(b))

Range(s) == {s[i] : i \in 1..Len(s)}

\* all sequences over S of length at most n
SeqsUpTo(S, n) == UNION {[1..k -> S] : k \in 0..n}

\* ---------------------------------------------------------------- init()

VersionPrefix == "NVIDIA Docker: "

\* rx = re.compile(r'^NVIDIA Docker: (\d+\.\d+\.\d+)'); rx.search(line):
\* the three numbers of the match, or <<>> when the line does not match
ParseVersion(line) ==
    IF Len(line) = 0 \/ Head(line) # VersionPrefix THEN <<>>
    ELSE LET r1 == Tail(line)
             a  == TakeDigits(r1)
             r2 == SubSeq(r1, Len(a) + 1, Len(r1))
             b  == IF Len(r2) > 0 THEN TakeDigits(Tail(r2)) ELSE <<>>
             r3 == SubSeq(r2, Len(b) + 2, Len(r2))
             c  == IF Len(r3) > 0 THEN TakeDigits(Tail(r3)) ELSE <<>>
         IN  IF /\ Len(a) > 0
                /\ Len(r2) > 0 /\ Head(r2) = "." /\ Len(b) > 0
                /\ Len(r3) > 0 /\ Head(r3) = "." /\ Len(c) > 0
             THEN <<IntOf(a), IntOf(b), IntOf(c)>>
             ELSE <<>>

\* the for/else loop of init(): the version of the first matching line
RECURSIVE DetectVersion(_)
DetectVersion(lines) ==
    IF Len(lines) = 0 THEN <<>>
    ELSE IF ParseVersion(Head(lines)) # <<>> THEN ParseVersion(Head(lines))
    ELSE DetectVersion(Tail(lines))

\* [*map(DeviceId, raw_device_mask.split(','))]
ParseMask(raw) == Split(raw, ",")

\* ----------------------------------------------------- device inventory

\* libcudart.get_device_props(idx), and the sysfs numa_node file of the device
DeviceProps(idx) ==
    [memory_size |-> 8 + idx, processing_units |-> 40 + idx,
     has_uuid |-> (idx % 2 = 0), numa_readable |-> (idx # 1)]

NilUUID == "00000000-0000-0000-0000-000000000000"

CUDADevice(dev_id) ==
    LET raw_info == DeviceProps(IntOf(dev_id))
    IN  [device_id        |-> dev_id,
         numa_node        |-> IF raw_info.numa_readable THEN <<0>> ELSE <<>>,
         memory_size      |-> raw_info.memory_size,
         processing_units |-> raw_info.processing_units,
         uuid             |-> IF raw_info.has_uuid THEN "uuid" ELSE NilUUID]

\* the loop of list_devices over range(num_devices)
DevicesOf(num_devices, mask) ==
    LET ids == [i \in 1..num_devices |-> Str(i - 1)]
        InMask(dev_id) == dev_id \in Range(mask)
        kept == SelectSeq(ids, LAMBDA d : ~InMask(d))
    IN  [i \in 1..Len(kept) |-> CUDADevice(kept[i])]

\* list_devices with the device mask ignored
NoMaskDevices(en, mask, lib, n) ==
    IF ~en THEN [raised |-> "", devices |-> <<>>]
    ELSE IF lib # "ok" THEN [raised |-> lib, devices |-> <<>>]
    ELSE [raised |-> "", devices |-> DevicesOf(n, <<>>)]

\* CUDAPlugin.list_devices with the class state (en, mask) and the drivers'
\* state (lib, n): the listing, or the exception the runtime library raises
list_devices(en, mask, lib, n) ==
    IF ~en THEN [raised |-> "", devices |-> <<>>]
    ELSE IF lib # "ok" THEN [raised |-> lib, devices |-> <<>>]
    ELSE [raised |-> "", devices |-> DevicesOf(n, mask)]

\* the device ids of a listing
ListingIdsOf(devices) == {devices[i].device_id : i \in 1..Len(devices)}

\* CUDAPlugin.available_slots: {'cuda.device': Decimal(len(devices))}
available_slots(en, mask, lib, n) ==
    LET r == list_devices(en, mask, lib, n)
    IN  [raised |-> r.raised, cuda_device |-> Len(r.devices)]

\* ------------------------------------------------ generate_docker_args

\* the ids with a positive amount in some slot of device_alloc
ActiveDeviceIds(device_alloc) ==
    {dev_id \in UNION {DOMAIN device_alloc[slot] : slot \in DOMAIN device_alloc} :
        \E slot \in DOMAIN device_alloc :
            dev_id \in DOMAIN device_alloc[slot] /\ device_alloc[slot][dev_id] > 0}

\* sorted(ids, key=lambda v: int(v)), the order generate_resource_data uses
RECURSIVE NumericSorted(_)
NumericSorted(ids) ==
    IF ids = {} THEN <<>>
    ELSE LET m == CHOOSE a \in ids : \A b \in ids : IntOf(a) <= IntOf(b)
         IN  <<m>> \o NumericSorted(ids \ {m})

\* sorted(active_device_ids): the ids in the order of Python strings
RECURSIVE Sorted(_)
Sorted(ids) ==
    IF ids = {} THEN <<>>
    ELSE LET m == CHOOSE a \in ids : \A b \in ids \ {a} : StrLess(a, b)
         IN  <<m>> \o Sorted(ids \ {m})

\* re.search(r'^/dev/nvidia(\d+)$', dev): the device index, <<>> for no match
DeviceIndex(dev) ==
    IF /\ Len(dev) >= 2
       /\ Head(dev) = "/dev/nvidia"
       /\ \A i \in 2..Len(dev) : IsDigit(dev[i])
    THEN Tail(dev)
    ELSE <<>>

\* the loop over nvidia_params['Devices'] with every file kept
AllDeviceFiles(device_files, active_device_ids) == device_files

\* the loop over nvidia_params['Devices']: the files handed to the container
FilterDeviceFiles(device_files, active_device_ids) ==
    SelectSeq(device_files,
              LAMBDA dev : \/ DeviceIndex(dev) = <<>>
                           \/ DeviceIndex(dev) \in active_device_ids)

DeviceGrant(dev) ==
    [PathOnHost |-> dev, PathInContainer |-> dev, CgroupPermissions |-> "mrw"]

\* the entries of nvidia_params['Volumes'] that start with vol_name + ':'
ParamsNamed(volume_params, vol_name) ==
    SelectSeq(volume_params, LAMBDA p : StartsWith(p, vol_name \o <<":">>))

\* the docker.volumes.create calls, for the missing names in iteration order
RECURSIVE CreateCalls(_, _, _)
CreateCalls(names, volume_params, driver) ==
    IF Len(names) = 0 THEN <<>>
    ELSE [i \in 1..Len(ParamsNamed(volume_params, Head(names))) |->
              [Name |-> Head(names), Driver |-> driver]]
         \o CreateCalls(Tail(names), volume_params, driver)

\* '{}:{}:{}'.format(vol_name, mount_pt, permission) for each entry of a name
RECURSIVE Binds(_, _)
Binds(names, volume_params) ==
    IF Len(names) = 0 THEN <<>>
    ELSE LET ps == ParamsNamed(volume_params, Head(names))
         IN  [i \in 1..Len(ps) |->
                 Join(<<Head(names), Split(ps[i], ":")[2], Split(ps[i], ":")[3]>>,
                      ":")]
             \o Binds(Tail(names), volume_params)

RequiredVolumes(volume_params) ==
    {Split(volume_params[i], ":")[1] : i \in 1..Len(volume_params)}

\* the orders in which a Python set may be iterated
Orders(S) == {o \in [1..Cardinality(S) -> S] : Range(o) = S}

\* the branch for nvidia-docker 1: endpoint is the HTTP endpoint (reachable or
\* not, and the JSON it answers), existing the volume names of the host,
\* order the iteration order of the set required_volumes
docker_args_v1(active_device_ids, endpoint, existing, order) ==
    IF ~endpoint.reachable
    THEN [raised |-> "RuntimeError", result |-> <<>>, http_calls |-> 1,
          list_calls |-> 0, create_calls |-> <<>>]
    ELSE LET nvidia_params == endpoint.json
             missing == SelectSeq(order, LAMBDA v : v \notin existing)
         IN  [raised |-> "",
              result |->
                [HostConfig |->
                   [Binds   |-> Binds(order, nvidia_params.Volumes),
                    Devices |->
                      LET devices == FilterDeviceFiles(nvidia_params.Devices,
                                                       active_device_ids)
                      IN  [i \in 1..Len(devices) |-> DeviceGrant(devices[i])]]],
              http_calls |-> 1,
              list_calls |-> 1,
              create_calls |-> CreateCalls(missing, nvidia_params.Volumes,
                                           nvidia_params.VolumeDriver)]

\* the branch for nvidia-docker 2
docker_args_v2(active_device_ids) ==
    [raised |-> "",
     result |-> [HostConfig |-> [Runtime |-> "nvidia"],
                 Env |-> << <<"NVIDIA_VISIBLE_DEVICES=">>
                            \o Join(Sorted(active_device_ids), ",") >>],
     http_calls |-> 0, list_calls |-> 0, create_calls |-> <<>>]

\* generate_docker_args below its check of cls.enabled
enabled_docker_args(en, ver, device_alloc, endpoint, existing, order) ==
    IF ver[1] = 1
    THEN docker_args_v1(ActiveDeviceIds(device_alloc), endpoint, existing, order)
    ELSE IF ver[1] = 2
    THEN docker_args_v2(ActiveDeviceIds(device_alloc))
    ELSE [raised |-> "RuntimeError", result |-> <<>>, http_calls |-> 0,
          list_calls |-> 0, create_calls |-> <<>>]

\* generate_docker_args without its check of cls.enabled
UncheckedDockerArgs(en, ver, device_alloc, endpoint, existing, order) ==
    enabled_docker_args(en, ver, device_alloc, endpoint, existing, order)

\* CUDAPlugin.generate_docker_args: what it raises or returns, and the calls
\* it makes on the HTTP endpoint and on docker.volumes
generate_docker_args(en, ver, device_alloc, endpoint, existing, order) ==
    IF ~en
    THEN [raised |-> "", result |-> <<>>, http_calls |-> 0,
          list_calls |-> 0, create_calls |-> <<>>]
    ELSE enabled_docker_args(en, ver, device_alloc, endpoint, existing, order)

\* ------------------------------------------------------ allocation map

\* mapping.get(key, {})
GetOrEmpty(mapping, key) == IF key \in DOMAIN mapping THEN mapping[key] ELSE <<>>

\* create_alloc_map: DiscretePropertyAllocMap(devices=devices, prop_func=
\* lambda dev: 1); has_apply tells whether the agent's class of allocation
\* maps has the method apply_allocation
NewAllocMap(devices, has_apply) ==
    [created |-> TRUE, has_apply |-> has_apply,
     capacity |-> [dev_id \in ListingIdsOf(devices) |-> 1],
     allocations |-> [slot \in {"cuda.device"} |->
                         [dev_id \in ListingIdsOf(devices) |-> 0]]]

\* d[k] += u[k] for every key of u, in place of d.update(u)
DictAdd(d, u) ==
    [k \in DOMAIN d \cup DOMAIN u |->
        (IF k \in DOMAIN d THEN d[k] ELSE 0) + (IF k \in DOMAIN u THEN u[k] ELSE 0)]

\* d.update(u)
DictUpdate(d, u) ==
    [k \in DOMAIN d \cup DOMAIN u |-> IF k \in DOMAIN u THEN u[k] ELSE d[k]]

\* alloc_map.apply_allocation(existing_alloc), a method of the agent's
\* allocation map: the amounts of the devices the map knows are merged into
\* the ledger, a device the map does not know is skipped, and an amount over
\* a device's capacity is rejected with the ledger unchanged
ApplyAllocation(map, existing_alloc) ==
    LET known(slot) == DOMAIN map.allocations[slot] \cap DOMAIN existing_alloc[slot]
    IN  IF \E slot \in DOMAIN existing_alloc : \E d \in known(slot) :
               existing_alloc[slot][d] > map.capacity[d]
        THEN [raised |-> "OutOfCapacity", map |-> map]
        ELSE [raised |-> "",
              map |-> [map EXCEPT !.allocations =
                         [slot \in DOMAIN map.allocations |->
                            IF slot \in DOMAIN existing_alloc
                            THEN [d \in DOMAIN map.allocations[slot] |->
                                    IF d \in DOMAIN existing_alloc[slot]
                                    THEN existing_alloc[slot][d]
                                    ELSE map.allocations[slot][d]]
                            ELSE map.allocations[slot]]]]

\* CUDAPlugin.restore_from_container: the exception raised, if any, and the
\* allocation map after the call
restore_from_container(en, container, map) ==
    IF ~en THEN [raised |-> "", map |-> map]
    ELSE IF ~container.has_resource_spec THEN [raised |-> "", map |-> map]
    ELSE LET per_device ==
                 GetOrEmpty(GetOrEmpty(container.allocations, "cuda"), "cuda.device")
         IN  IF map.has_apply
             THEN ApplyAllocation(map, [slot \in {"cuda.device"} |-> per_device])
             ELSE [raised |-> "",
                   map |-> [map EXCEPT !.allocations["cuda.device"] =
                                           DictUpdate(@, per_device)]]

\* ------------------------------------------------ gather_node_measures

Measurement(value, capacity) == [value |-> value, capacity |-> capacity]

\* the loop over range(dev_count), from index idx on, with the totals and
\* per-device maps gathered so far in acc; nvml.fail_at is the index at which
\* libnvml.get_device_stats raises LibraryError (-1: at none)
RECURSIVE GatherLoop(_, _, _, _)
GatherLoop(idx, mask, nvml, acc) ==
    IF idx >= nvml.count THEN acc
    ELSE IF Str(idx) \in Range(mask) THEN GatherLoop(idx + 1, mask, nvml, acc)
    ELSE IF nvml.fail_at = idx THEN [acc EXCEPT !.caught = "LibraryError"]
    ELSE LET dev_stat == nvml.stats[idx]
         IN  GatherLoop(idx + 1, mask, nvml,
                 [caught |-> "",
                  mem_avail_total |-> acc.mem_avail_total + dev_stat.mem_total,
                  mem_used_total |-> acc.mem_used_total + dev_stat.mem_used,
                  mem_stats |-> (Str(idx) :> Measurement(dev_stat.mem_used,
                                                         dev_stat.mem_total))
                                @@ acc.mem_stats,
                  util_total |-> acc.util_total + dev_stat.gpu_util,
                  util_stats |-> (Str(idx) :> Measurement(dev_stat.gpu_util, 100))
                                 @@ acc.util_stats])

\* CUDAPlugin.gather_node_measures: the exception it caught, if any, and the
\* two NodeMeasurement records it returns
gather_node_measures(en, mask, nvml) ==
    LET zero == [caught |-> "", mem_avail_total |-> 0, mem_used_total |-> 0,
                 mem_stats |-> <<>>, util_total |-> 0, util_stats |-> <<>>]
        counted == en /\ nvml.lib = "ok"
        dev_count == IF counted THEN nvml.count ELSE 0
        acc == IF ~en THEN zero
               ELSE IF nvml.lib # "ok" THEN [zero EXCEPT !.caught = nvml.lib]
               ELSE GatherLoop(0, mask, nvml, zero)
    IN  [caught |-> acc.caught,
         records |->
           << [key |-> "cuda_mem", unit_hint |-> "bytes",
               stats_filter |-> {"max"},
               per_node |-> Measurement(acc.mem_used_total, acc.mem_avail_total),
               per_device |-> acc.mem_stats],
              [key |-> "cuda_util", unit_hint |-> "percent",
               stats_filter |-> {"avg", "max"},
               per_node |-> Measurement(acc.util_total, dev_count * 100),
               per_device |-> acc.util_stats] >>]

\* ------------------------------------------------- TPU share arithmetic
\* A Decimal quantized to Decimal('.01') is the integer number of its quanta;
\* a quotient of two integers is the exact fraction [num, den]. Memory is
\* counted in KiB, which keeps the unit of 2 GiB and its products within the
\* 32-bit integers of the model checker.

\* unit_memory = 2 * (2 ** 30) bytes: 1 unit = 2 GiB
unit_memory == 2 * (2 ^ 20)
\* unit_proc: 1 unit = 1 TPU
unit_proc == 1
\* quanta per unit share: quantum = Decimal('.01')
QuantaPerUnit == 100

Fraction(num, den) == [num |-> num, den |-> den]

FracLess(a, b) == a.num * b.den < b.num * a.den

\* min(a, b) and max(a, b) of Python: the first argument unless the second
\* is strictly smaller (greater)
FracMin(a, b) == IF FracLess(b, a) THEN b ELSE a
FracMax(a, b) == IF FracLess(a, b) THEN b ELSE a

\* Decimal(x).quantize(quantum, ROUND_DOWN) for x >= 0, in quanta
QuantizeDown(x) == (QuantaPerUnit * x.num) \div x.den

\* Decimal(x).quantize(quantum, ROUND_UP) for x >= 0, in quanta
QuantizeUp(x) == (QuantaPerUnit * x.num + x.den - 1) \div x.den

\* TPUAcceleratorInfo.max_share
max_share(dev) ==
    LET mem_shares == Fraction(dev.memory_size, unit_memory)
        proc_shares == Fraction(dev.processing_units, unit_proc)
        common_shares == FracMin(mem_shares, proc_shares)
    IN  QuantizeDown(common_shares)

\* TPUAcceleratorInfo.share_to_spec: int() of the products, share in quanta
share_to_spec(share) ==
    << (unit_memory * share) \div QuantaPerUnit,
       (unit_proc * share) \div QuantaPerUnit >>

\* spec_to_share rounding down instead of up
SpecToShareRoundingDown(requested_memory, requested_proc_units) ==
    QuantizeDown(FracMax(Fraction(requested_memory, unit_memory),
                         Fraction(requested_proc_units, unit_proc)))

\* TPUAcceleratorInfo.spec_to_share
spec_to_share(requested_memory, requested_proc_units) ==
    LET mem_share == Fraction(requested_memory, unit_memory)
        proc_share == Fraction(requested_proc_units, unit_proc)
        required_share == FracMax(mem_share, proc_share)
    IN  QuantizeUp(required_share)

\* -------------------------------------------------------------- inputs

Line(major, rest) == <<VersionPrefix, major>> \o rest

ProbeLines ==
    { Line("1", <<".", "0", ".", "1">>),
      Line("2", <<".", "0", ".", "3">>),
      Line("3", <<".", "1", ".", "0">>),
      Line("2", <<".", "0">>),
      <<"Client version: ", "1", ".", "0", ".", "1">> }

\* the helper binary: missing, or its output lines
Probes ==
    {[found |-> FALSE, stdout |-> <<>>]} \cup
    {[found |-> TRUE, stdout |-> s] : s \in SeqsUpTo(ProbeLines, MaxLines)}

\* config.get('device_mask'): None, or the raw text
RawMasks ==
    {[given |-> FALSE, raw |-> <<>>]} \cup
    {[given |-> TRUE, raw |-> r] :
        r \in { <<"0">>, <<"1">>, <<"0", ",", "2">>,
                <<"0", ",", " ", "1">>, <<>> }}

\* the helper binary printing at most one line
OneLineProbes == {p \in Probes : Len(p.stdout) <= 1}

\* the helper binary missing, or printing the version line of nvidia-docker 1
V1Probes ==
    {p \in OneLineProbes : ~p.found \/ p.stdout = <<Line("1", <<".", "0", ".", "1">>)>>}

NoMask == [given |-> FALSE, raw |-> <<>>]

\* device ids named by allocations: str(0), str(2), str(10)
AllocIds == {Str(0), Str(2), Str(10)}

\* Mapping[DeviceId, Decimal] over some of the ids
PerDeviceAllocs(ids) == UNION {[S -> 0..MaxAmount] : S \in SUBSET ids}

\* Mapping[SlotName, Mapping[DeviceId, Decimal]] with the given slots
DeviceAllocs(slots, ids) == [slots -> PerDeviceAllocs(ids)]

OneSlotAllocs == DeviceAllocs({"cuda.device"}, AllocIds)

TwoSlotAllocs == DeviceAllocs({"cuda.device", "cuda.shares"}, AllocIds)

\* 'name:mountpoint:permission'
VolumeParam(name, mount_pt, permission) ==
    name \o <<":", mount_pt, ":", permission>>

\* volume names: "d", "d2" (one a prefix of the other) and "x"
VolD == <<"d">>
VolD2 == <<"d", "2">>
VolX == <<"x">>

VolumeParamPool ==
    { VolumeParam(VolD, "/usr/local/nvidia", "ro"),
      VolumeParam(VolD2, "/usr/local/nvidia2", "ro"),
      VolumeParam(VolD, "/opt/nvidia", "rw") }

DevFile(rest) == <<"/dev/nvidia">> \o rest

\* /dev/nvidiactl, /dev/nvidia0, /dev/nvidia2, /dev/nvidia10
DevFilePool ==
    { DevFile(<<"ctl">>), DevFile(Str(0)), DevFile(Str(2)), DevFile(Str(10)) }

\* the endpoint http://localhost:3476/docker/cli/json
Endpoint(reachable, volume_params, device_files) ==
    [reachable |-> reachable,
     json |-> [Volumes |-> volume_params, VolumeDriver |-> "nvidia-docker",
               Devices |-> device_files]]

DefaultVolumes == << VolumeParam(VolD, "/usr/local/nvidia", "ro") >>

DefaultDevices == << DevFile(<<"ctl">>), DevFile(Str(0)), DevFile(Str(2)) >>

DefaultAlloc == [slot \in {"cuda.device"} |-> (Str(0) :> 1 @@ Str(2) :> 0)]

\* device ids named by the resource spec of a container: str(0), str(1)
RestoreIds == {Str(0), Str(1)}

\* what get_resource_spec_from_container gives: None, or a resource spec
\* whose allocations map device name -> slot name -> device id -> amount
Containers ==
    { [has_resource_spec |-> FALSE, allocations |-> <<>>],
      [has_resource_spec |-> TRUE, allocations |-> <<>>],
      [has_resource_spec |-> TRUE, allocations |-> [f \in {"cuda"} |-> <<>>]] }
    \cup
    { [has_resource_spec |-> TRUE,
       allocations |-> [f \in {"cuda"} |-> [slot \in {"cuda.device"} |-> m]]] :
          m \in PerDeviceAllocs(RestoreIds) }

\* what libnvml.get_device_stats may answer for one device
DeviceStats ==
    { [mem_used |-> 1, mem_total |-> 4, gpu_util |-> 50],
      [mem_used |-> 4, mem_total |-> 4, gpu_util |-> 100] }

\* the statistics library over n devices: missing (ImportError), failing at
\* the device-count query (LibraryError), failing at the query of one device,
\* or answering every query
NvmlStates(n) ==
    { [lib |-> l, count |-> n, fail_at |-> -1,
       stats |-> [i \in 0..(n - 1) |-> CHOOSE st \in DeviceStats : TRUE]] :
          l \in {"ImportError", "LibraryError"} }
    \cup
    { [lib |-> "ok", count |-> n, fail_at |-> f, stats |-> st] :
          f \in -1..(n - 1), st \in [0..(n - 1) -> DeviceStats] }

\* memory sizes of TPU devices, in KiB: none, 1 KiB, 1 GiB, the 7.5 * 1000**3
\* bytes list_devices reports, 2 GiB, 2 GiB + 1 KiB, 6 GiB - 1 KiB, 8 GiB
DeviceMemories ==
    {0, 1, 2 ^ 20, 7324218, 2 ^ 21, 2 ^ 21 + 1, 3 * (2 ^ 21) - 1, 2 ^ 23}

TPUDevices ==
    [memory_size : DeviceMemories, processing_units : 0..MaxProcessingUnits]

\* the endpoint with its usual answer, reachable or not
DefaultEndpoints ==
    {Endpoint(reachable, DefaultVolumes, DefaultDevices) : reachable \in BOOLEAN}

ReachableEndpoint == Endpoint(TRUE, DefaultVolumes, DefaultDevices)

\* the endpoint answering each Devices list
DeviceListEndpoints ==
    {Endpoint(TRUE, DefaultVolumes, device_files) :
        device_files \in SeqsUpTo(DevFilePool, MaxDevFiles)}

\* the endpoint answering each Volumes list
VolumeListEndpoints ==
    {Endpoint(TRUE, volume_params, DefaultDevices) :
        volume_params \in SeqsUpTo(VolumeParamPool, MaxVolumeParams)}

AllAllocs == OneSlotAllocs \cup TwoSlotAllocs

DefaultContainers ==
    {c \in Containers :
        c.has_resource_spec /\ "cuda" \in DOMAIN c.allocations
        /\ "cuda.device" \in DOMAIN c.allocations["cuda"]
        /\ c.allocations["cuda"]["cuda.device"] = (Str(0) :> 1)}

\* -------------------------------------------------------------- actions

\* init(config)
Bootstrap(probe, cfg) ==
    /\ pc = "loaded"
    /\ pc' = "ready"
    /\ LET ver == DetectVersion(probe.stdout)
           mask == IF cfg.given THEN ParseMask(cfg.raw) ELSE device_mask
       IN  IF ~probe.found \/ ver = <<>>
           THEN /\ enabled' = FALSE
                /\ UNCHANGED <<nvdocker_version, device_mask>>
           ELSE /\ nvdocker_version' = ver
                /\ device_mask' = mask
                /\ enabled' =
                     (enabled /\
                      list_devices(enabled, mask, libcudart, hw_count).raised = "")
    /\ ret' = [op |-> "init", probe |-> probe, cfg |-> cfg]
    /\ UNCHANGED <<libcudart, hw_count, host_volumes, alloc_map>>

\* await CUDAPlugin.list_devices()
ListDevices ==
    /\ pc = "ready" /\ ret.op = "none"
    /\ LET r == list_devices(enabled, device_mask, libcudart, hw_count)
       IN  ret' = [op |-> "list_devices", hw |-> hw_count,
                   raised |-> r.raised, devices |-> r.devices]
    /\ UNCHANGED <<pc, enabled, nvdocker_version, device_mask, libcudart,
                   hw_count, host_volumes, alloc_map>>

\* await CUDAPlugin.available_slots()
AvailableSlots ==
    /\ pc = "ready" /\ ret.op = "none"
    /\ LET r == available_slots(enabled, device_mask, libcudart, hw_count)
       IN  ret' = [op |-> "available_slots", hw |-> hw_count,
                   raised |-> r.raised, cuda_device |-> r.cuda_device]
    /\ UNCHANGED <<pc, enabled, nvdocker_version, device_mask, libcudart,
                   hw_count, host_volumes, alloc_map>>

\* await CUDAPlugin.generate_docker_args(docker, device_alloc)
GenerateDockerArgs(device_alloc, endpoint) ==
    /\ pc = "ready" /\ ret.op = "none"
    /\ \E order \in Orders(RequiredVolumes(endpoint.json.Volumes)) :
         LET r == generate_docker_args(enabled, nvdocker_version, device_alloc,
                                       endpoint, host_volumes, order)
         IN  /\ ret' = [op |-> "generate_docker_args",
                        device_alloc |-> device_alloc, endpoint |-> endpoint,
                        existing |-> host_volumes, raised |-> r.raised,
                        result |-> r.result, http_calls |-> r.http_calls,
                        list_calls |-> r.list_calls,
                        create_calls |-> r.create_calls]
             /\ host_volumes' = host_volumes \cup
                    {r.create_calls[i].Name : i \in 1..Len(r.create_calls)}
    /\ UNCHANGED <<pc, enabled, nvdocker_version, device_mask, libcudart,
                   hw_count, alloc_map>>

\* environment: volumes are created or removed on the host by others
DockerVolumes ==
    /\ ret.op = "none"
    /\ \E vs \in SUBSET {VolD, VolD2, VolX} : vs # host_volumes /\ host_volumes' = vs
    /\ UNCHANGED <<pc, enabled, nvdocker_version, device_mask, libcudart,
                   hw_count, alloc_map, ret>>

\* await CUDAPlugin.create_alloc_map()
CreateAllocMap(has_apply) ==
    /\ pc = "ready" /\ ret.op = "none"
    /\ ~alloc_map.created
    /\ LET r == list_devices(enabled, device_mask, libcudart, hw_count)
       IN  /\ ret' = [op |-> "create_alloc_map", raised |-> r.raised]
           /\ alloc_map' = IF r.raised = "" THEN NewAllocMap(r.devices, has_apply)
                           ELSE alloc_map
    /\ UNCHANGED <<pc, enabled, nvdocker_version, device_mask, libcudart,
                   hw_count, host_volumes>>

\* the agent allocates or frees a device of the map
Allocate ==
    /\ ret.op = "none" /\ alloc_map.created
    /\ \E d \in DOMAIN alloc_map.allocations["cuda.device"],
          amount \in 0..1 :
         /\ alloc_map.allocations["cuda.device"][d] # amount
         /\ alloc_map' = [alloc_map EXCEPT !.allocations["cuda.device"][d] = amount]
    /\ UNCHANGED <<pc, enabled, nvdocker_version, device_mask, libcudart,
                   hw_count, host_volumes, ret>>

\* await CUDAPlugin.restore_from_container(container, alloc_map)
RestoreFromContainer(container) ==
    /\ pc = "ready" /\ ret.op = "none"
    /\ alloc_map.created
    /\ LET r == restore_from_container(enabled, container, alloc_map)
       IN  /\ ret' = [op |-> "restore_from_container", container |-> container,
                      before |-> alloc_map, raised |-> r.raised]
           /\ alloc_map' = r.map
    /\ UNCHANGED <<pc, enabled, nvdocker_version, device_mask, libcudart,
                   hw_count, host_volumes>>

\* await CUDAPlugin.gather_node_measures(ctx)
GatherNodeMeasures(nvml) ==
    /\ pc = "ready" /\ ret.op = "none"
    /\ LET r == gather_node_measures(enabled, device_mask, nvml)
       IN  ret' = [op |-> "gather_node_measures", nvml |-> nvml, raised |-> "",
                   caught |-> r.caught, records |-> r.records]
    /\ UNCHANGED <<pc, enabled, nvdocker_version, device_mask, libcudart,
                   hw_count, host_volumes, alloc_map>>

\* spec_to_share(*share_to_spec(share)): a share turned into a resource
\* request and the request turned back into a share
ShareRoundTrip(share) ==
    /\ ret.op = "none"
    /\ LET spec == share_to_spec(share)
       IN  ret' = [op |-> "share_round_trip", share |-> share, spec |-> spec,
                   back |-> spec_to_share(spec[1], spec[2])]
    /\ UNCHANGED <<pc, enabled, nvdocker_version, device_mask, libcudart,
                   hw_count, host_volumes, alloc_map>>

\* max_share of a device, its share_to_spec, and max_share of a device with
\* exactly those resources
CapacityRoundTrip(dev) ==
    /\ ret.op = "none"
    /\ LET share == max_share(dev)
           spec == share_to_spec(share)
       IN  ret' = [op |-> "capacity_round_trip", device |-> dev,
                   share |-> share, spec |-> spec,
                   back |-> max_share([memory_size |-> spec[1],
                                       processing_units |-> spec[2]])]
    /\ UNCHANGED <<pc, enabled, nvdocker_version, device_mask, libcudart,
                   hw_count, host_volumes, alloc_map>>

\* environment: a device is added to or removed from the host
HotPlug ==
    /\ ret.op = "none"
    /\ \E n \in 0..MaxDevices : n # hw_count /\ hw_count' = n
    /\ UNCHANGED <<pc, enabled, nvdocker_version, device_mask, libcudart,
                   host_volumes, alloc_map, ret>>

\* no call is awaited: the agent may start one
Idle == ret.op = "none"

\* the agent takes the outcome of the call; the next call may start
Return ==
    /\ ret.op # "none"
    /\ ret' = [op |-> "none"]
    /\ UNCHANGED <<pc, enabled, nvdocker_version, device_mask, libcudart,
                   hw_count, host_volumes, alloc_map>>

\* the class attributes as the module is imported
Init ==
    /\ pc = "loaded"
    /\ enabled = TRUE
    /\ nvdocker_version = <<0, 0, 0>>
    /\ device_mask = <<>>
    /\ libcudart \in {"ok", "ImportError", "RuntimeError"}
    /\ hw_count \in 0..MaxDevices
    /\ host_volumes = {}
    /\ alloc_map = [created |-> FALSE]
    /\ ret = [op |-> "none"]

Next ==
    \/ Return
    \/ \E probe \in Probes, cfg \in RawMasks : Bootstrap(probe, cfg)
    \/ ListDevices
    \/ AvailableSlots
    \/ HotPlug
    \/ Idle /\ \E device_alloc \in OneSlotAllocs, endpoint \in DefaultEndpoints :
         GenerateDockerArgs(device_alloc, endpoint)
    \/ Idle /\ \E has_apply \in BOOLEAN : CreateAllocMap(has_apply)
    \/ Idle /\ \E container \in DefaultContainers : RestoreFromContainer(container)
    \/ Idle /\ \E nvml \in {n \in NvmlStates(hw_count) : n.fail_at = -1} :
         GatherNodeMeasures(nvml)

Spec == Init /\ [][Next]_vars

\* nvidia-docker 2 and the allocations
InitArgs == Init /\ libcudart = "ok" /\ hw_count = MaxDevices

NextV2 ==
    \/ Return
    \/ \E probe \in OneLineProbes : Bootstrap(probe, NoMask)
    \/ Idle /\ \E device_alloc \in AllAllocs :
         GenerateDockerArgs(device_alloc, ReachableEndpoint)

SpecV2 == InitArgs /\ [][NextV2]_vars

\* nvidia-docker 1 and the endpoint's Devices list
NextV1Devices ==
    \/ Return
    \/ \E probe \in V1Probes : Bootstrap(probe, NoMask)
    \/ Idle /\ \E device_alloc \in OneSlotAllocs, endpoint \in DeviceListEndpoints :
         GenerateDockerArgs(device_alloc, endpoint)

SpecV1Devices == InitArgs /\ [][NextV1Devices]_vars

\* nvidia-docker 1 and the endpoint's Volumes list
NextV1Volumes ==
    \/ Return
    \/ \E probe \in OneLineProbes : Bootstrap(probe, NoMask)
    \/ DockerVolumes
    \/ Idle /\ \E endpoint \in VolumeListEndpoints :
         GenerateDockerArgs(DefaultAlloc, endpoint)

SpecV1Volumes == InitArgs /\ [][NextV1Volumes]_vars

\* the allocation map and its restoration from running containers
MaskProbes ==
    {p \in OneLineProbes : ~p.found \/ p.stdout = <<Line("2", <<".", "0", ".", "3">>)>>}

NextRestore ==
    \/ Return
    \/ \E probe \in MaskProbes, cfg \in RawMasks : Bootstrap(probe, cfg)
    \/ Idle /\ \E has_apply \in BOOLEAN : CreateAllocMap(has_apply)
    \/ Allocate
    \/ Idle /\ \E container \in Containers : RestoreFromContainer(container)

SpecRestore == Init /\ [][NextRestore]_vars

\* the measurement collector
NextStats ==
    \/ Return
    \/ \E probe \in MaskProbes, cfg \in RawMasks : Bootstrap(probe, cfg)
    \/ HotPlug
    \/ Idle /\ \E nvml \in NvmlStates(hw_count) : GatherNodeMeasures(nvml)

SpecStats == Init /\ [][NextStats]_vars

\* the share conversions of the TPU plugin
NextShare ==
    \/ Return
    \/ Idle /\ \E share \in 0..MaxShare : ShareRoundTrip(share)
    \/ Idle /\ \E dev \in TPUDevices : CapacityRoundTrip(dev)

SpecShare == InitArgs /\ [][NextShare]_vars

\* ================================================================ claims

\* the line has the shape 'NVIDIA Docker: <digits>.<digits>.<digits>...'
MatchesVersionPattern(line) ==
    \E p, q, e \in 1..Len(line) :
        /\ line[1] = VersionPrefix
        /\ 2 < p /\ p + 1 < q /\ q < e
        /\ line[p] = "." /\ line[q] = "."
        /\ \A i \in (2..(p - 1)) \cup ((p + 1)..(q - 1)) \cup ((q + 1)..e) :
               IsDigit(line[i])

BootstrapFails(probe) ==
    \/ ~probe.found
    \/ \A i \in 1..Len(probe.stdout) : ~MatchesVersionPattern(probe.stdout[i])

NoArgs(r) ==
    /\ r.raised = "" /\ r.result = <<>>
    /\ r.http_calls = 0 /\ r.list_calls = 0 /\ r.create_calls = <<>>

\* C1: when the helper binary is absent or none of its lines matches the
\* version pattern, init leaves the plugin disabled; a disabled plugin is
\* never enabled again by any operation; and every generate_docker_args call
\* of a disabled plugin returns the empty parameter set, making no call on
\* the endpoint or on docker.
C1_DisabledStaysDisabled ==
    /\ []((ret.op = "init" /\ BootstrapFails(ret.probe)) => ~enabled)
    /\ []((~enabled /\ ret.op = "generate_docker_args") => NoArgs(ret))
    /\ [][~enabled => ~enabled']_vars

C1_Witness ==
    /\ ~enabled /\ nvdocker_version = <<0, 0, 0>>
    /\ ret.op = "generate_docker_args" /\ ret.result = <<>>

\* the ids the claims call active: a positive amount in some slot
PositiveIds(device_alloc) ==
    {dev_id \in AllocIds :
        \E slot \in DOMAIN device_alloc :
            /\ dev_id \in DOMAIN device_alloc[slot]
            /\ device_alloc[slot][dev_id] > 0}

\* text is the comma-joined list of exactly the ids of S, each once, in
\* increasing string order
IsSortedListOf(text, S) ==
    IF S = {} THEN text = <<>>
    ELSE LET parts == Split(text, ",")
         IN  /\ Range(parts) = S
             /\ \A i \in 1..(Len(parts) - 1) : StrLess(parts[i], parts[i + 1])

\* C2: enabled with major version 2, generate_docker_args calls neither the
\* endpoint nor docker.volumes and returns the runtime 'nvidia' and the one
\* variable NVIDIA_VISIBLE_DEVICES, whose value lists exactly the ids with a
\* positive amount in some slot, sorted (as strings), comma-joined, each once.
C2_V2Args ==
    (enabled /\ nvdocker_version[1] = 2 /\ ret.op = "generate_docker_args") =>
        /\ ret.raised = ""
        /\ ret.http_calls = 0 /\ ret.list_calls = 0 /\ ret.create_calls = <<>>
        /\ DOMAIN ret.result = {"HostConfig", "Env"}
        /\ ret.result.HostConfig = [Runtime |-> "nvidia"]
        /\ Len(ret.result.Env) = 1
        /\ Head(ret.result.Env[1]) = "NVIDIA_VISIBLE_DEVICES="
        /\ IsSortedListOf(Tail(ret.result.Env[1]), PositiveIds(ret.device_alloc))

C2_Witness ==
    /\ enabled /\ nvdocker_version[1] = 2 /\ ret.op = "generate_docker_args"
    /\ DOMAIN ret.device_alloc = {"cuda.device", "cuda.shares"}
    /\ PositiveIds(ret.device_alloc) = {Str(0), Str(2)}
    /\ ret.result.Env = << <<"NVIDIA_VISIBLE_DEVICES=", "0", ",", "2">> >>

\* dev is /dev/nvidia<N> for a device index N
IsIndexedFile(dev) == \E n \in 0..20 : dev = DevFile(Str(n))

IndexOfFile(dev) == Str(CHOOSE n \in 0..20 : dev = DevFile(Str(n)))

\* C3: enabled with major version 1, the device list returned holds, of the
\* endpoint's Devices list, every file without a device index, the file
\* /dev/nvidia<N> exactly when id N has a positive amount, and nothing else;
\* every entry is granted 'mrw'.
C3_V1Devices ==
    (enabled /\ nvdocker_version[1] = 1 /\ ret.op = "generate_docker_args"
        /\ ret.raised = "") =>
        LET out == ret.result.HostConfig.Devices
            given == Range(ret.endpoint.json.Devices)
        IN  /\ \A i \in 1..Len(out) :
                   /\ out[i].CgroupPermissions = "mrw"
                   /\ out[i].PathInContainer = out[i].PathOnHost
            /\ {out[i].PathOnHost : i \in 1..Len(out)} =
                   {dev \in given :
                       \/ ~IsIndexedFile(dev)
                       \/ IndexOfFile(dev) \in PositiveIds(ret.device_alloc)}

C3_Witness ==
    /\ enabled /\ nvdocker_version[1] = 1 /\ ret.op = "generate_docker_args"
    /\ ret.endpoint.json.Devices =
           <<DevFile(<<"ctl">>), DevFile(Str(0)), DevFile(Str(2))>>
    /\ PositiveIds(ret.device_alloc) = {Str(2)}
    /\ ret.raised = ""
    /\ ret.result.HostConfig.Devices =
           <<DeviceGrant(DevFile(<<"ctl">>)), DeviceGrant(DevFile(Str(2)))>>

\* the ids of the devices the drivers report that the mask does not name
UnmaskedIds(n) == {Str(i) : i \in 0..(n - 1)} \ Range(device_mask)

ListingIds(devices) == {devices[i].device_id : i \in 1..Len(devices)}

ListingExcludesMask ==
    (ret.op = "list_devices" /\ ret.raised = "") =>
        /\ ListingIds(ret.devices) \cap Range(device_mask) = {}
        /\ \A i, j \in 1..Len(ret.devices) :
               ret.devices[i].device_id = ret.devices[j].device_id => i = j

\* C4 as stated: no listed descriptor is masked, ids are unique in a listing,
\* and available_slots reports the number of unmasked devices of the hardware
\* as it is at the call.
C4_Original ==
    /\ ListingExcludesMask
    /\ (ret.op = "list_devices" /\ ret.raised = "") =>
           ListingIds(ret.devices) = UnmaskedIds(ret.hw)
    /\ (ret.op = "available_slots" /\ ret.raised = "") =>
           ret.cuda_device = Cardinality(UnmaskedIds(ret.hw))

\* C4 as amended: the same while the plugin is enabled; a disabled plugin
\* lists no device and reports 0.
C4_MaskedDevicesExcluded ==
    /\ ListingExcludesMask
    /\ (ret.op = "list_devices" /\ ret.raised = "") =>
           ListingIds(ret.devices) = IF enabled THEN UnmaskedIds(ret.hw) ELSE {}
    /\ (ret.op = "available_slots" /\ ret.raised = "") =>
           ret.cuda_device = IF enabled THEN Cardinality(UnmaskedIds(ret.hw)) ELSE 0

C4_Witness ==
    /\ enabled /\ ret.op = "available_slots" /\ ret.raised = ""
    /\ ret.hw = 3 /\ device_mask = <<Str(0), Str(2)>>
    /\ ret.cuda_device = 1

CreateCount(calls, name) == Cardinality({i \in 1..Len(calls) : calls[i].Name = name})

BindCount(binds, name) ==
    Cardinality({i \in 1..Len(binds) : StartsWith(binds[i], name \o <<":">>)})

\* C10: enabled with major version 1, a call creates each required volume
\* that is missing from the host exactly once and no other volume; after it
\* every required volume exists; the same call made again creates nothing;
\* and the bind list holds one entry for every required volume.
C10_VolumesCreatedOnce ==
    (enabled /\ nvdocker_version[1] = 1 /\ ret.op = "generate_docker_args"
        /\ ret.raised = "") =>
        LET required == RequiredVolumes(ret.endpoint.json.Volumes)
        IN  /\ \A name \in required \cup ret.existing \cup {VolD, VolD2, VolX} :
                   CreateCount(ret.create_calls, name) =
                       IF name \in required \ ret.existing THEN 1 ELSE 0
            /\ required \subseteq host_volumes
            /\ \A order \in Orders(required) :
                   generate_docker_args(enabled, nvdocker_version,
                       ret.device_alloc, ret.endpoint, host_volumes,
                       order).create_calls = <<>>
            /\ \A name \in required :
                   BindCount(ret.result.HostConfig.Binds, name) = 1

CudaDeviceSpec(container) ==
    GetOrEmpty(GetOrEmpty(container.allocations, "cuda"), "cuda.device")

C6_UnknownDeviceSkipped ==
    (ret.op = "restore_from_container" /\ enabled
        /\ ret.container.has_resource_spec) =>
        LET per_device == CudaDeviceSpec(ret.container)
            listed == ListingIdsOf(
                list_devices(enabled, device_mask, libcudart, hw_count).devices)
            ledger == alloc_map.allocations["cuda.device"]
        IN  /\ ret.raised = ""
            /\ \A d \in DOMAIN per_device :
                   IF d \in listed
                   THEN d \in DOMAIN ledger /\ ledger[d] = per_device[d]
                   ELSE d \notin DOMAIN ledger

RECURSIVE SumOver(_, _, _)
SumOver(f, keys, field) ==
    IF keys = {} THEN 0
    ELSE LET k == CHOOSE x \in keys : TRUE
         IN  f[k][field] + SumOver(f, keys \ {k}, field)

\* C7: when the statistics library is missing or raises at any of its
\* queries, or the plugin is disabled, gather_node_measures raises nothing
\* and both records carry a per-node measurement of 0 over 0 and an empty
\* per-device map.
C7_DriverFailureGivesZeros ==
    (ret.op = "gather_node_measures" /\ (ret.caught # "" \/ ~enabled)) =>
        /\ ret.raised = ""
        /\ Len(ret.records) = 2
        /\ \A i \in 1..2 :
               /\ ret.records[i].per_node = Measurement(0, 0)
               /\ ret.records[i].per_device = <<>>

\* C8: in every result of gather_node_measures no masked id is a key of a
\* per-device map and each per-node measurement, value and capacity, is the
\* sum of the per-device entries. Stated for the calls in which every query
\* of the library was answered.
C8_AggregatesExcludeMasked ==
    (ret.op = "gather_node_measures" /\ ret.caught = "") =>
        \A i \in 1..Len(ret.records) :
            LET rec == ret.records[i]
                keys == DOMAIN rec.per_device
            IN  /\ keys \cap Range(device_mask) = {}
                /\ rec.per_node.value = SumOver(rec.per_device, keys, "value")
                /\ rec.per_node.capacity = SumOver(rec.per_device, keys, "capacity")

\* C9: for every share s that is a non-negative multiple of 0.01,
\* spec_to_share(share_to_spec(s)) >= s; for every device d, max_share of the
\* resources share_to_spec(max_share(d)) is <= max_share(d).
C9_RoundTripsConservative ==
    /\ ret.op = "share_round_trip" => ret.back >= ret.share
    /\ ret.op = "capacity_round_trip" => ret.back <= ret.share

C9_Witness ==
    /\ ret.op = "share_round_trip"
    /\ ret.share = 1 /\ ret.spec = <<20971, 0>> /\ ret.back = 1

====
